---- MODULE Spec2Model ----
(***************************************************************************)
(* State-machine model of the agentic-ops-hub web front end and of its     *)
(* graph schema and seed scripts.                                          *)
(*                                                                         *)
(* The components of the front end own their state exclusively and share   *)
(* nothing but the read-only backend, so each specification below models   *)
(* one kind of component and Init chooses which instance is under study:   *)
(*   Spec        the polling components (ProposedActions, AgentActionsAudit)*)
(*   SpecResolve resolveEntityTypeBySearch as approve() uses it            *)
(*   SpecStream  the three live-stream widgets                             *)
(*   SpecApi     lib/api.ts getJSON / postJSON                             *)
(*   SpecDock    the AgentDock submit handler                              *)
(*   SpecPages   the data-loading effects and handlers of the pages        *)
(*   SpecBase    the API base URL each module computes when it is loaded   *)
(*   SpecGraph   the Cypher schema and seed scripts, run clause by clause  *)
(*   SpecRoute   the route table and the IncidentDetail effect             *)
(* A state cell (rows, err, busyId, ...) holds the last value handed to    *)
(* its React setter.  Every await is a separate step: the backend's answer *)
(* is an input chosen when the request settles.                            *)
(***************************************************************************)
EXTENDS Integers, Sequences, FiniteSets, Bags, TLC

VARIABLES
    \* ---- polling components (ProposedActions.tsx, AgentActionsAudit.tsx)
    comp,        \* which component this run is about
    phase,       \* "init" (constructed), "mounted", "unmounted"
    rows,        \* useState rows
    err,         \* useState err: a message, <<>> is the empty string
    busyId,      \* ProposedActions useState busyId
    status,      \* AgentActionsAudit useState status (the filter)
    busy,        \* AgentActionsAudit useState busy
    timers,      \* interval timers set and not cleared: a bag of [load, ms],
                 \* the query string their load() captured and their period
    loads,       \* in-flight load() fetches: the bag of captured query strings
    approvals,   \* in-flight approve() calls: a bag of processes
    lateCalls,   \* history: kinds of request started after teardown
    lastBody,    \* history: [shape, list] of the last body a load() decoded
    rowsFrom,    \* history: the query string of the load() that last set rows
    \* ---- approve() lines 90-91 on its own (SpecResolve)
    rsPc,        \* "call" (awaiting the search), "done" (POST sent), "reload", "failed"
    rsEid,       \* row.entity_id
    rsResp,      \* the answer of /graph/search
    rsTargets,   \* const targets
    rsPosts,     \* history: the bodies of the execute POSTs sent so far
    \* ---- live-stream widgets (StreamTicker, EventTicker, NotificationCenter)
    widget,      \* which widget this run is about
    wPhase,      \* "init", "mounted", "unmounted"
    mounts,      \* how many times the widget has been mounted
    socks,       \* every WebSocket constructed, in order
    items,       \* useState events / messages / items
    got,         \* history: messages handled since the last mount
    kinds,       \* history: payload kinds of the first messages since mount
    \* ---- lib/api.ts (SpecApi)
    apiPc,       \* "call" (awaiting fetch), "done"
    apiFn,       \* "getJSON" or "postJSON"
    apiResp,     \* the HTTP exchange
    apiOut,      \* what the call yields
    \* ---- AgentDock.tsx (SpecDock)
    dkOpen,      \* useState open
    dkMsg,       \* useState msg
    dkBusy,      \* useState busy
    dkResp,      \* useState resp
    dkShowReason,\* useState showReason
    dkPending,   \* number of /agent/query requests in flight
    dkLast,      \* history: how the last request settled
    dkEscaped,   \* history: an exception left ask()
    \* ---- pages (SpecPages)
    page,        \* which page this run is about
    pgPc,        \* position of the page's loading routine
    pgFetch,     \* the fetches of the routine: index -> exchange or pending
    pgErr,       \* the inline error text (<<>> when none or when the page has none)
    pgData,      \* whether the page's data setters have run
    pgUnhandled, \* history: a rejection nobody handles was raised
    pgLogged,    \* history: console.error was called
    \* ---- the API base address of a module (SpecBase)
    abModule,    \* which module this run is about
    abOverride,  \* window.__API_BASE__
    abEnv,       \* import.meta.env.VITE_API_BASE
    abPc,        \* "load" (module not evaluated yet), "done"
    abBase,      \* the constant the module computed
    \* ---- the graph database under the bootstrap scripts (SpecGraph)
    gNodes,      \* the nodes, in creation order: [label, props]
    gEdges,      \* the relationships, in creation order: [type, from, to, props]
    gConstraints,\* the uniqueness constraints, in creation order
    gIndexes,    \* the full-text indexes, in creation order
    gScript,     \* the script being applied: "schema", "seed", or "idle"
    gPc,         \* the next statement of that script
    gEnv,        \* the variables the script has bound: name -> node
    gRun,        \* how many script runs have been started
    gSeedLog,    \* history: which runs were seed runs
    gSchemaLog,  \* history: which runs were schema runs
    gError,      \* history: the database rejected a statement
    gSnap,       \* history: the nodes when the first seed run ended
    gSchemaSnap, \* history: constraints and indexes when the first schema run ended
    \* ---- the routing shell and the incident-detail page (SpecRoute)
    rtId,        \* the incident id this run navigates to
    rtLoc,       \* the current location: the segments of its path
    rtPage,      \* the page element the router renders
    rtParam,     \* useParams() of that page
    rtFetches,   \* history: the fetches IncidentDetail started, in order
    rtBinds,     \* history: how many times IncidentDetail received a new id
    rtNavs       \* number of navigations so far

pollVars == <<comp, phase, rows, err, busyId, status, busy, timers, loads,
              approvals, lateCalls, lastBody, rowsFrom>>
resolveVars == <<rsPc, rsEid, rsResp, rsTargets, rsPosts>>
streamVars == <<widget, wPhase, mounts, socks, items, got, kinds>>
apiVars == <<apiPc, apiFn, apiResp, apiOut>>
dockVars == <<dkOpen, dkMsg, dkBusy, dkResp, dkShowReason, dkPending, dkLast, dkEscaped>>
pageVars == <<page, pgPc, pgFetch, pgErr, pgData, pgUnhandled, pgLogged>>
baseVars == <<abModule, abOverride, abEnv, abPc, abBase>>
graphVars == <<gNodes, gEdges, gConstraints, gIndexes, gScript, gPc, gEnv, gRun, gSeedLog,
               gSchemaLog, gError, gSnap, gSchemaSnap>>
routeVars == <<rtId, rtLoc, rtPage, rtParam, rtFetches, rtBinds, rtNavs>>

vars == <<pollVars, resolveVars, streamVars, apiVars, dockVars, pageVars, baseVars, graphVars, routeVars>>

\* What each specification leaves alone.
otherThanPoll == <<resolveVars, streamVars, apiVars, dockVars, pageVars, baseVars, graphVars, routeVars>>
otherThanResolve == <<pollVars, streamVars, apiVars, dockVars, pageVars, baseVars, graphVars, routeVars>>
otherThanStream == <<pollVars, resolveVars, apiVars, dockVars, pageVars, baseVars, graphVars, routeVars>>
otherThanApi == <<pollVars, resolveVars, streamVars, dockVars, pageVars, baseVars, graphVars, routeVars>>
otherThanDock == <<pollVars, resolveVars, streamVars, apiVars, pageVars, baseVars, graphVars, routeVars>>
otherThanPages == <<pollVars, resolveVars, streamVars, apiVars, dockVars, baseVars, graphVars, routeVars>>
otherThanBase == <<pollVars, resolveVars, streamVars, apiVars, dockVars, pageVars, graphVars, routeVars>>
otherThanGraph == <<pollVars, resolveVars, streamVars, apiVars, dockVars, pageVars, baseVars, routeVars>>
otherThanRoute == <<pollVars, resolveVars, streamVars, apiVars, dockVars, pageVars, baseVars, graphVars>>

\* A component that a specification is not about does not exist in its runs.
PollOff ==
    /\ comp = "none" /\ phase = "init" /\ rows = <<>> /\ err = <<>> /\ busyId = "null"
    /\ status = "all" /\ busy = FALSE /\ timers = EmptyBag /\ loads = EmptyBag
    /\ approvals = EmptyBag /\ lateCalls = {} /\ lastBody = <<>> /\ rowsFrom = <<>>
ResolveOff ==
    rsPc = "off" /\ rsEid = "" /\ rsResp = <<>> /\ rsTargets = <<>> /\ rsPosts = <<>>
StreamOff ==
    /\ widget = "none" /\ wPhase = "init" /\ mounts = 0 /\ socks = <<>> /\ items = <<>>
    /\ got = 0 /\ kinds = <<>>
ApiOff == apiPc = "off" /\ apiFn = "none" /\ apiResp = <<>> /\ apiOut = <<>>
DockOff ==
    /\ dkOpen = FALSE /\ dkMsg = "" /\ dkBusy = FALSE /\ dkResp = <<>>
    /\ dkShowReason = FALSE /\ dkPending = 0 /\ dkLast = <<>> /\ dkEscaped = FALSE
PagesOff ==
    /\ page = "none" /\ pgPc = "off" /\ pgFetch = <<>> /\ pgErr = <<>> /\ pgData = FALSE
    /\ pgUnhandled = FALSE /\ pgLogged = FALSE
BaseOff ==
    /\ abModule = "none" /\ abOverride = "" /\ abEnv = "" /\ abPc = "off" /\ abBase = ""
GraphOff ==
    /\ gNodes = <<>> /\ gEdges = <<>> /\ gConstraints = <<>> /\ gIndexes = <<>>
    /\ gScript = "off" /\ gPc = 0 /\ gEnv = <<>> /\ gRun = 0 /\ gSeedLog = <<>>
    /\ gSchemaLog = <<>> /\ gError = FALSE /\ gSnap = <<>> /\ gSchemaSnap = <<>>
RouteOff ==
    /\ rtId = <<>> /\ rtLoc = <<>> /\ rtPage = "off" /\ rtParam = <<>> /\ rtFetches = <<>>
    /\ rtBinds = 0 /\ rtNavs = 0

(***************************************************************************)
(* Bounds of the model.                                                    *)
(***************************************************************************)
MaxLoads == 2        \* load() fetches in flight at once
MaxApprovals == 2    \* approve() calls in flight at once
MaxResults == 2      \* results in one /graph/search answer (SpecResolve)
MaxMsgs == 60        \* messages one WebSocket connection delivers (SpecStream)
MaxVaried == 2       \* the first messages of a connection vary in payload kind
MaxMounts == 2       \* mounts of a widget in one run (SpecStream)
MaxRuns == 3         \* runs of the bootstrap scripts against one database (SpecGraph)
MaxIdLen == 2        \* characters of an incident id (SpecRoute)
MaxNavs == 3         \* navigations in one run (SpecRoute)

(***************************************************************************)
(* Values.                                                                 *)
(***************************************************************************)
NoId == "null"                       \* busyId === null
EmptyText == <<>>                    \* the string ""

\* type AgentAction / AuditRow: the fields the code reads.
Action(aid, rb, eid) == [action_id |-> aid, runbook_id |-> rb, entity_id |-> eid]
A1 == Action("AA-1", "rb-restart", "order-service")
A2 == Action("AA-2", "rb-inspect", "M-42")
\* The logical lists the backend answers with (action ids are unique: the
\* graph holds one AgentAction per id).
Lists == {<<>>, <<A1>>, <<A1, A2>>}

\* A decoded JSON value as load() inspects it: `data?.items`, Array.isArray.
Wrapped(l) == [isArray |-> FALSE, hasItems |-> TRUE, items |-> l, elems |-> <<>>]
Bare(l) == [isArray |-> TRUE, hasItems |-> FALSE, items |-> <<>>, elems |-> l]
PlainObject == [isArray |-> FALSE, hasItems |-> FALSE, items |-> <<>>, elems |-> <<>>]
ListBodies == {Wrapped(l) : l \in Lists} \cup {Bare(l) : l \in Lists} \cup {PlainObject}

\* An HTTP exchange as fetch() reports it.  net = FALSE: fetch() rejected
\* (network unreachable).  json = FALSE: the body is not JSON, r.json() rejects.
\* text is the raw body as r.text() yields it (read for diagnostics only).
Response(net, st, stText, isJson, d, txt) ==
    [net |-> net, status |-> st, statusText |-> stText, json |-> isJson, data |-> d,
     text |-> txt]
NetFail == Response(FALSE, 0, "", FALSE, PlainObject, "")
Http(st, stText) == Response(TRUE, st, stText, FALSE, PlainObject, "upstream error")
OkJson(d) == Response(TRUE, 200, "OK", TRUE, d, "json")
OkText == Response(TRUE, 200, "OK", FALSE, PlainObject, "plain text")
ListResponses ==
    {NetFail, Http(500, "Internal Server Error"), OkText} \cup {OkJson(d) : d \in ListBodies}

\* Response.ok
Ok(r) == r.status >= 200 /\ r.status <= 299

\* `a || b` on strings: the empty string is falsy.
OrElse(a, b) == IF a = EmptyText THEN b ELSE a

\* async function fetchJSON(url): what the await yields.
\*   threw = TRUE: rejected with an Error whose message is `message`.
Threw(m) == [threw |-> TRUE, message |-> m, value |-> PlainObject]
Returned(v) == [threw |-> FALSE, message |-> EmptyText, value |-> v]
fetchJSON(r) ==
    IF ~r.net THEN Threw(<<"Failed to fetch">>)
    ELSE IF ~Ok(r) THEN Threw(<<ToString(r.status), r.statusText>>)
    ELSE IF ~r.json THEN Threw(<<"Unexpected token">>)
    ELSE Returned(r.data)

\* setRows((data?.items) ?? (Array.isArray(data) ? data : []))
RowsOfItemsOnly(data) == IF data.hasItems THEN data.items ELSE <<>>
RowsOf(data) ==
    IF data.hasItems THEN data.items
    ELSE IF data.isArray THEN data.elems
    ELSE <<>>

\* The history record of a decoded body.
ShapeOf(data) ==
    [shape |-> IF data.hasItems THEN "wrapped" ELSE IF data.isArray THEN "bare" ELSE "object",
     list |-> IF data.hasItems THEN data.items ELSE data.elems]
NoBody == [shape |-> "none", list |-> <<>>]

PA == "ProposedActions"
AU == "AgentActionsAudit"

\* The status filter of the audit log's <select>; "pending_approval" is also
\* the fixed query of the proposal list.
Filters == {"all", "pending_approval", "executed", "rejected"}

\* One element leaves a bag / enters it.
Leave(b, x) == b (-) SetToBag({x})
Enter(b, x) == b (+) SetToBag({x})

\* In-flight load() fetches: a bag of the queries they captured.
NoLoads == EmptyBag
NoTimers == EmptyBag
\* No load() has set the rows yet.
NoQuery == <<"none">>
ActiveTimers == BagToSet(timers)
InFlightLoads == BagCardinality(loads)
Pending == BagToSet(loads)

\* In-flight approve() calls, as a bag of processes (the calls are anonymous
\* closures: which is which does not matter).  pc: "search" (awaiting
\* resolveEntityTypeBySearch), "execute" (awaiting the POST, which carries
\* entityType), "reload" (awaiting load()).  rows0 is history: the rows
\* displayed when the approval started.
Proc(pc, row, t, rows0) == [pc |-> pc, row |-> row, entityType |-> t, rows0 |-> rows0]
NoApprovals == EmptyBag
InFlightApprovals == BagCardinality(approvals)
Running == BagToSet(approvals)

\* A request started now is late when the component is already torn down.
Late(kind) == IF phase = "unmounted" THEN lateCalls \cup {kind} ELSE lateCalls

(***************************************************************************)
(* resolveEntityTypeBySearch (ProposedActions.tsx).                        *)
(***************************************************************************)
Null == "\\null"                     \* JavaScript null / undefined
Absent == "\\undefined"              \* a property the object does not have
Falsy(x) == x = Null \/ x = ""

\* One search result: props (id, name, title; Absent when missing) and labels.
Entry(id, name, title, labels) ==
    [props |-> [id |-> id, name |-> name, title |-> title], labels |-> labels]
\* The decoded body of /graph/search: `res?.results` when it is an array.
SearchBody(results) == [isArray |-> TRUE, results |-> results]

\* The candidate labels, in the order the loop tries them.
Priority == <<"Service", "Database", "API", "Server", "Topic", "Machine", "Line",
              "Plant", "Sensor", "Team">>

InSeq(x, seq) == \E i \in DOMAIN seq : seq[i] = x

\* p?.id === eid || p?.name === eid || p?.title === eid
ExactMatch(e, eid) == e.props.id = eid \/ e.props.name = eid \/ e.props.title = eid

\* results.find(...) || results[0]
HitFirstOnly(results, eid) == results[1]
Hit(results, eid) ==
    IF \E i \in DOMAIN results : ExactMatch(results[i], eid)
    THEN results[CHOOSE i \in DOMAIN results :
                    /\ ExactMatch(results[i], eid)
                    /\ \A j \in 1..(i - 1) : ~ExactMatch(results[j], eid)]
    ELSE results[1]

\* for (const t of [...]) if (labels.includes(t)) return t; return labels[0] ?? null
LabelOf(labels) ==
    IF \E k \in DOMAIN Priority : InSeq(Priority[k], labels)
    THEN Priority[CHOOSE k \in DOMAIN Priority :
                     /\ InSeq(Priority[k], labels)
                     /\ \A j \in 1..(k - 1) : ~InSeq(Priority[j], labels)]
    ELSE IF Len(labels) > 0 THEN labels[1] ELSE Null

resolveEntityTypeBySearch(eid, r) ==
    LET out == fetchJSON(r)
        results == IF out.value.isArray THEN out.value.results ELSE <<>>
    IN  IF out.threw THEN Null
        ELSE IF Len(results) = 0 THEN Null
        ELSE LabelOf(Hit(results, eid).labels)

\* approve(): (await resolveEntityTypeBySearch(row.entity_id)) || "Service"
EntityTypeForNoDefault(eid, r) == resolveEntityTypeBySearch(eid, r)
EntityTypeFor(eid, r) ==
    LET t == resolveEntityTypeBySearch(eid, r) IN IF Falsy(t) THEN "Service" ELSE t

\* The search answers the proposal list meets in Spec (SpecResolve draws
\* from a far larger set).
SearchOk(results) == Response(TRUE, 200, "OK", TRUE, SearchBody(results), "json")
SearchResponses ==
    {NetFail, Http(500, "Internal Server Error"), SearchOk(<<>>),
     SearchOk(<<Entry("order-service", "Order Service", Absent, <<"Service">>),
                Entry("M-42", "Press 42", Absent, <<"Machine">>)>>)}
\* The answers to the execute POST.
ExecResponses == {NetFail, Http(500, "Internal Server Error"), OkJson(PlainObject)}

(***************************************************************************)
(* URLs: a URL's text is a sequence of symbols, each a character or a run  *)
(* of unreserved characters (letters, digits, "_").                        *)
(***************************************************************************)
\* encodeURIComponent / decodeURIComponent, character by character.
EncodeChar(c) ==
    CASE c = " " -> "%20" [] c = "&" -> "%26" [] c = "#" -> "%23" [] OTHER -> c
DecodeChar(c) ==
    CASE c = "%20" -> " " [] c = "%26" -> "&" [] c = "%23" -> "#" [] OTHER -> c
Encode(s) == [i \in DOMAIN s |-> EncodeChar(s[i])]
Decode(s) == [i \in DOMAIN s |-> DecodeChar(s[i])]

\* The value of the query parameter `key` the request carries: the URL ends
\* at the first "#" (the fragment is not sent), pairs are separated by "&",
\* and the value is percent-decoded.
RECURSIVE UpTo(_, _)
UpTo(s, stops) ==
    IF s = <<>> \/ Head(s) \in stops THEN <<>> ELSE <<Head(s)>> \o UpTo(Tail(s), stops)
QueryValue(query, key) ==
    LET first == UpTo(query, {"#", "&"})
    IN  IF Len(first) >= 2 /\ first[1] = key /\ first[2] = "="
        THEN Decode(SubSeq(first, 3, Len(first)))
        ELSE <<>>

(***************************************************************************)
(* The polling components: load(), the polling effect, approve().          *)
(***************************************************************************)
\* setInterval(load, 5000) in the proposal list, setInterval(load, 7000) in
\* the audit log.
ProposalPollMs == 5000
AuditPollMs == 7000
PollMs(c) == IF c = PA THEN ProposalPollMs ELSE AuditPollMs
\* The timer the effect of component c sets for a load() that captured f.
Timer(c, f) == [load |-> f, ms |-> PollMs(c)]

\* setInterval(load, ms) / clearInterval(t) of the effect run whose timer
\* is tm.
SetInterval(t, tm) == Enter(t, tm)
ClearIntervalLeak(t, tm) == t
ClearInterval(t, tm) == Leave(t, tm)

\* Audit log, url: status === "all" ? base
\*                                  : `${base}?status=${encodeURIComponent(status)}`
\* (the query string of the URL; empty when there is none).
AuditQueryAlways(st) == <<"status", "=">> \o Encode(<<st>>)
AuditQuery(st) == IF st = "all" THEN <<>> ELSE <<"status", "=">> \o Encode(<<st>>)

\* The query string a load() captured: the proposal list always asks for
\* pending_approval, the audit log for the url of the render that made it.
QueryOf(c, st) == IF c = PA THEN <<"status", "=", "pending_approval">> ELSE AuditQuery(st)

\* load() up to its await: setBusy(true) (audit log), setErr(""), fetch.
StartLoad(f, kind) ==
    /\ InFlightLoads < MaxLoads
    /\ err' = EmptyText
    /\ busy' = IF comp = AU THEN TRUE ELSE busy
    /\ loads' = Enter(loads, f)
    /\ lateCalls' = Late(kind)

\* e.message || "Failed to load ..."
LoadFallback == IF comp = PA THEN <<"Failed to load proposed actions">>
                ELSE <<"Failed to load agent actions">>

\* load() after its await: setRows(...) or the catch branch.
FinishLoad(r) ==
    LET out == fetchJSON(r)
    IN  /\ rows' = IF out.threw THEN <<>> ELSE RowsOf(out.value)
        /\ err' = IF out.threw THEN OrElse(out.message, LoadFallback) ELSE err
        /\ lastBody' = IF out.threw THEN NoBody ELSE ShapeOf(out.value)

\* useEffect(() => { load(); const t = setInterval(load, ...); ... })
Mount ==
    /\ phase = "init"
    /\ phase' = "mounted"
    /\ StartLoad(QueryOf(comp, status), "poll")
    /\ timers' = SetInterval(timers, Timer(comp, QueryOf(comp, status)))
    /\ UNCHANGED <<comp, rows, busyId, status, approvals, lastBody, rowsFrom>>

\* The cleanup of the effect: clearInterval(t).
Unmount ==
    /\ phase = "mounted"
    /\ phase' = "unmounted"
    /\ timers' = ClearInterval(timers, Timer(comp, QueryOf(comp, status)))
    /\ UNCHANGED <<comp, rows, err, busyId, status, busy, loads, approvals, lateCalls,
                   lastBody, rowsFrom>>

\* An interval timer fires: the load() of the render that set it.
Tick(tm) ==
    /\ BagIn(tm, timers)
    /\ StartLoad(tm.load, "poll")
    /\ UNCHANGED <<comp, phase, rows, busyId, status, timers, approvals, lastBody, rowsFrom>>

\* A fetch of load() settles with response r.
LoadSettle(f, r) ==
    /\ BagIn(f, loads)
    /\ loads' = Leave(loads, f)
    /\ FinishLoad(r)
    /\ rowsFrom' = f
    /\ busy' = IF comp = AU THEN FALSE ELSE busy
    /\ UNCHANGED <<comp, phase, busyId, status, timers, approvals, lateCalls>>

\* Audit log: <select onChange={e => setStatus(e.target.value)}>; url changes,
\* so the effect is cleaned up and run again.
SetStatusKeepsTimer(s) ==
    /\ comp = AU
    /\ phase = "mounted"
    /\ s # status
    /\ status' = s
    /\ timers' = SetInterval(timers, Timer(comp, QueryOf(comp, s)))
    /\ StartLoad(QueryOf(comp, s), "poll")
    /\ UNCHANGED <<comp, phase, rows, busyId, approvals, lastBody, rowsFrom>>
SetStatus(s) ==
    /\ comp = AU
    /\ phase = "mounted"
    /\ s # status
    /\ status' = s
    /\ timers' = SetInterval(ClearInterval(timers, Timer(comp, QueryOf(comp, status))),
                             Timer(comp, QueryOf(comp, s)))
    /\ StartLoad(QueryOf(comp, s), "poll")
    /\ UNCHANGED <<comp, phase, rows, busyId, approvals, lastBody, rowsFrom>>

\* Audit log: <button onClick={load} disabled={busy}>
Refresh ==
    /\ comp = AU
    /\ phase = "mounted"
    /\ ~busy
    /\ StartLoad(QueryOf(comp, status), "refresh")
    /\ UNCHANGED <<comp, phase, rows, busyId, status, timers, approvals, lastBody, rowsFrom>>

\* <button disabled={busyId === r.action_id}>
IsBusyInFlight(r) == \E p \in Running : p.row.action_id = r.action_id
IsBusy(r) == busyId = r.action_id

\* approve(row) up to its first await: the click on an enabled button.
Approve(i) ==
    /\ comp = PA
    /\ phase = "mounted"
    /\ i \in DOMAIN rows
    /\ ~IsBusy(rows[i])
    /\ InFlightApprovals < MaxApprovals
    /\ approvals' = Enter(approvals, Proc("search", rows[i], "", rows))
    /\ busyId' = rows[i].action_id
    /\ err' = EmptyText
    /\ lateCalls' = Late("search")
    /\ UNCHANGED <<comp, phase, rows, status, busy, timers, loads, lastBody, rowsFrom>>

\* The search settles; approve() builds targets and starts the execute POST.
SearchSettle(p, r) ==
    /\ BagIn(p, approvals)
    /\ p.pc = "search"
    /\ approvals' = Enter(Leave(approvals, p),
                          Proc("execute", p.row, EntityTypeFor(p.row.entity_id, r), p.rows0))
    /\ lateCalls' = Late("execute")
    /\ UNCHANGED <<comp, phase, rows, err, busyId, status, busy, timers, loads, lastBody, rowsFrom>>

\* new Error(`Execute failed: ${r.status} ${txt}`) or the fetch's rejection.
ExecuteError(r) ==
    IF ~r.net THEN <<"Failed to fetch">> ELSE <<"Execute failed:", ToString(r.status), r.text>>

\* The execute POST fails: catch { setErr(e.message || "Approval failed") }
\* finally { setBusyId(null) }.
ExecuteFailedClearsRows(p, r) ==
    /\ BagIn(p, approvals)
    /\ p.pc = "execute"
    /\ ~r.net \/ ~Ok(r)
    /\ err' = OrElse(ExecuteError(r), <<"Approval failed">>)
    /\ busyId' = NoId
    /\ rows' = <<>>
    /\ approvals' = Leave(approvals, p)
    /\ UNCHANGED <<comp, phase, status, busy, timers, loads, lateCalls, lastBody, rowsFrom>>
ExecuteFailed(p, r) ==
    /\ BagIn(p, approvals)
    /\ p.pc = "execute"
    /\ ~r.net \/ ~Ok(r)
    /\ err' = OrElse(ExecuteError(r), <<"Approval failed">>)
    /\ busyId' = NoId
    /\ approvals' = Leave(approvals, p)
    /\ UNCHANGED <<comp, phase, rows, status, busy, timers, loads, lateCalls, lastBody, rowsFrom>>

\* The execute POST succeeds: await load(), here up to load()'s fetch.
ExecuteOk(p, r) ==
    /\ BagIn(p, approvals)
    /\ p.pc = "execute"
    /\ r.net /\ Ok(r)
    /\ err' = EmptyText
    /\ approvals' = Enter(Leave(approvals, p), Proc("reload", p.row, "", p.rows0))
    /\ lateCalls' = Late("reload")
    /\ UNCHANGED <<comp, phase, rows, busyId, status, busy, timers, loads, lastBody, rowsFrom>>

\* The load() awaited by approve() settles; finally { setBusyId(null) }.
ReloadSettle(p, r) ==
    /\ BagIn(p, approvals)
    /\ p.pc = "reload"
    /\ FinishLoad(r)
    /\ rowsFrom' = QueryOf(comp, status)
    /\ busyId' = NoId
    /\ approvals' = Leave(approvals, p)
    /\ UNCHANGED <<comp, phase, status, busy, timers, loads, lateCalls>>

(***************************************************************************)
(* Specification of the polling components.                                *)
(***************************************************************************)
PollInit ==
    /\ comp \in {PA, AU}
    /\ phase = "init"
    /\ rows = <<>>
    /\ err = EmptyText
    /\ busyId = NoId
    /\ status = "all"
    /\ busy = FALSE
    /\ timers = NoTimers
    /\ loads = NoLoads
    /\ approvals = NoApprovals
    /\ lateCalls = {}
    /\ lastBody = NoBody
    /\ rowsFrom = NoQuery

Init == PollInit /\ ResolveOff /\ StreamOff /\ ApiOff /\ DockOff /\ PagesOff /\ BaseOff /\ GraphOff /\ RouteOff

Next ==
    \/ Mount /\ UNCHANGED otherThanPoll
    \/ Unmount /\ UNCHANGED otherThanPoll
    \/ \E tm \in ActiveTimers : Tick(tm) /\ UNCHANGED otherThanPoll
    \/ \E f \in Pending, r \in ListResponses : LoadSettle(f, r) /\ UNCHANGED otherThanPoll
    \/ \E s \in Filters : SetStatus(s) /\ UNCHANGED otherThanPoll
    \/ Refresh /\ UNCHANGED otherThanPoll
    \/ \E i \in DOMAIN rows : Approve(i) /\ UNCHANGED otherThanPoll
    \/ \E p \in Running, r \in SearchResponses : SearchSettle(p, r) /\ UNCHANGED otherThanPoll
    \/ \E p \in Running, r \in ExecResponses : ExecuteFailed(p, r) /\ UNCHANGED otherThanPoll
    \/ \E p \in Running, r \in ExecResponses : ExecuteOk(p, r) /\ UNCHANGED otherThanPoll
    \/ \E p \in Running, r \in ListResponses : ReloadSettle(p, r) /\ UNCHANGED otherThanPoll

Spec == Init /\ [][Next]_vars

(***************************************************************************)
(* Properties of the polling components (checked under Spec).              *)
(***************************************************************************)

\* C2 as stated: once the proposal list or the audit log is unmounted it
\* starts no further request, also when an approval or a poll was in flight
\* at unmount.
C2_NoCallAfterTeardown == lateCalls = {}

\* C2 amended: after teardown no poll, refresh or search request is started;
\* the audit log starts none at all, and the proposal list starts only the
\* execute POST and the reload that continue an approval already in flight.
C2_OnlyApprovalContinues ==
    /\ comp = AU => lateCalls = {}
    /\ comp = PA => lateCalls \subseteq {"execute", "reload"}

\* An approval was in flight at unmount, ran to its end, and every request
\* has settled.
C2_Witness ==
    /\ comp = PA
    /\ phase = "unmounted"
    /\ lateCalls = {"execute", "reload"}
    /\ InFlightApprovals = 0
    /\ InFlightLoads = 0

\* The step in which approval p handles the failure of its execute request.
ExecuteFailureOf(p) == p.pc = "execute" /\ approvals' = Leave(approvals, p)

\* C4 as stated: when the execute request of an approval fails, the error
\* text is set, no reload is issued, the busy marker is cleared and the rows
\* are exactly those displayed when the approval started.
C4_RowsAsAtApprovalStart ==
    [][\A p \in Running : ExecuteFailureOf(p) =>
            /\ err' # EmptyText
            /\ loads' = loads
            /\ busyId' = NoId
            /\ rows' = p.rows0]_vars

\* C4 amended: ... and the failure handling itself leaves the rows as they
\* were immediately before it (a poll that settled during the approval may
\* have replaced those displayed when the approval started).
C4_FailureKeepsRows ==
    [][\A p \in Running : ExecuteFailureOf(p) =>
            /\ err' # EmptyText
            /\ loads' = loads
            /\ busyId' = NoId
            /\ rows' = rows]_vars

\* An execute request has failed with a non-2xx status while rows were shown.
C4_Witness ==
    /\ comp = PA
    /\ Len(err) > 0 /\ err[1] = "Execute failed:"
    /\ busyId = NoId
    /\ rows = <<A1, A2>>
    /\ InFlightApprovals = 0

\* C5: for the same logical list, the rows are that list whether the body
\* last decoded was the wrapped shape {items: [...]} or the bare array, in
\* the proposal list and in the audit log alike.
C5_DualShape ==
    lastBody.shape \in {"wrapped", "bare"} => rows = lastBody.list

\* The audit log has decoded a bare array of two actions.
C5_Witness == comp = AU /\ lastBody = [shape |-> "bare", list |-> <<A1, A2>>]

\* C9: at most one displayed row is marked busy, also with several
\* approvals in flight.
BusyRows == {i \in DOMAIN rows : IsBusy(rows[i])}
C9_AtMostOneBusy == Cardinality(BusyRows) <= 1

\* Approvals of two different rows are in flight and one row shows busy.
C9_Witness ==
    /\ \E p, q \in Running : p.row.action_id # q.row.action_id
    /\ Cardinality(BusyRows) = 1

\* C20: every request the audit log starts carries the filter selected at
\* that moment as its status parameter, and has no query at all when the
\* filter is all; a change of the filter starts exactly one request in the
\* same step and leaves exactly one timer, whose ticks ask for the new
\* filter.
C20_FilterInQuery ==
    [][comp = AU =>
         /\ \A f \in BagToSet(loads') :
                CopiesIn(f, loads') > CopiesIn(f, loads) =>
                   /\ QueryValue(f, "status") =
                         (IF status' = "all" THEN <<>> ELSE <<status'>>)
                   /\ status' = "all" => f = <<>>
         /\ status' # status =>
                /\ BagCardinality(loads') = BagCardinality(loads) + 1
                /\ BagCardinality(timers') = 1
                /\ \A tm \in BagToSet(timers') :
                       QueryValue(tm.load, "status") =
                         (IF status' = "all" THEN <<>> ELSE <<status'>>)]_vars

\* The filter went from all to executed and back to all; a request made
\* for executed and one made for all are in flight, and the only timer
\* left asks for all.
C20_Witness ==
    /\ comp = AU
    /\ phase = "mounted"
    /\ status = "all"
    /\ loads = SetToBag({<<"status", "=", "executed">>, <<>>})
    /\ timers = SetToBag({[load |-> <<>>, ms |-> 7000]})

\* The approvals of action id whose execute POST is in flight.
ExecutingFor(id) == {q \in Running : q.pc = "execute" /\ q.row.action_id = id}

\* C21: while the execute request of an action is in flight, the Approve
\* button of that action, where its row is displayed, is disabled, and no
\* other execute request for the same action is in flight, whatever
\* approvals of other rows started or finished meanwhile.
C21_OneExecutePerAction ==
    \A p \in Running : p.pc = "execute" =>
        /\ \A i \in DOMAIN rows :
              rows[i].action_id = p.row.action_id => IsBusy(rows[i])
        /\ ExecutingFor(p.row.action_id) = {p}
        /\ CopiesIn(p, approvals) = 1

\* C22: in the mounted audit log, when no request is outstanding, the rows
\* were set by the response to a request made with the filter now selected
\* (never by a late response to a request made with an earlier filter).
C22_RowsOfCurrentFilter ==
    (comp = AU /\ phase = "mounted" /\ InFlightLoads = 0) =>
        /\ rowsFrom # NoQuery
        /\ QueryValue(rowsFrom, "status") = (IF status = "all" THEN <<>> ELSE <<status>>)

\* C23: after every step a mounted proposal list or audit log has exactly
\* one poll timer set, of period 5 s and 7 s respectively, and a component
\* not mounted (not yet, or no longer) has none; a step that changes the
\* filter clears every timer that was set and leaves one whose load() asks
\* for the new filter.
C23_OneTimer ==
    [][/\ phase' = "mounted" =>
            /\ BagCardinality(timers') = 1
            /\ \A tm \in BagToSet(timers') : tm.ms = (IF comp = PA THEN 5000 ELSE 7000)
       /\ phase' # "mounted" => timers' = EmptyBag
       /\ status' # status =>
            /\ \A tm \in BagToSet(timers) : ~BagIn(tm, timers')
            /\ \A tm \in BagToSet(timers') :
                   QueryValue(tm.load, "status") = <<status'>> \/
                   (status' = "all" /\ tm.load = <<>>)]_vars

\* The audit log is mounted, its filter went to rejected and then to
\* executed, and its one timer is the 7 s timer asking for executed; a
\* request made for rejected is still in flight.
C23_Witness ==
    /\ comp = AU
    /\ phase = "mounted"
    /\ status = "executed"
    /\ BagIn(<<"status", "=", "rejected">>, loads)
    /\ timers = SetToBag({[load |-> <<"status", "=", "executed">>, ms |-> 7000]})

(***************************************************************************)
(* SpecResolve: lines 90-91 of approve() over a wide range of search       *)
(* answers.                                                                *)
(***************************************************************************)
Eids == {"M-42", "order-service"}
EntryProps ==
    {<<"M-42", "Press 42", Absent>>, <<"X-9", "M-42", Absent>>, <<"INC-1", Absent, "M-42">>,
     <<"order-service", "Order Service", Absent>>, <<"db-1", "orders-db", Absent>>}
LabelLists ==
    {<<>>, <<"Machine">>, <<"Service">>, <<"Incident">>, <<"Incident", "Machine">>,
     <<"Machine", "Service">>}
Entries == {Entry(p[1], p[2], p[3], l) : p \in EntryProps, l \in LabelLists}
RECURSIVE SeqsUpTo(_, _)
SeqsUpTo(S, n) ==
    IF n = 0 THEN {<<>>}
    ELSE LET shorter == SeqsUpTo(S, n - 1)
         IN  shorter \cup {Append(q, x) : q \in {r \in shorter : Len(r) = n - 1}, x \in S}
ResolveInputs ==
    {NetFail, Http(500, "Internal Server Error"), Http(404, "Not Found"), OkText,
     OkJson(PlainObject)}
    \cup {SearchOk(q) : q \in SeqsUpTo(Entries, MaxResults)}

ResolveInit ==
    /\ rsPc = "call"
    /\ rsEid \in Eids
    /\ rsResp \in ResolveInputs
    /\ rsTargets = <<>>
    /\ rsPosts = <<>>

\* const entityType = (await resolveEntityTypeBySearch(row.entity_id)) || "Service";
\* const targets = [{ entity_type: entityType, entity_id: row.entity_id }];
\* const r = await fetch(.../execute?mode=execute, {method: "POST", body: {targets, ...}})
ResolveDone ==
    /\ rsPc = "call"
    /\ rsPc' = "done"
    /\ rsTargets' = <<[entity_type |-> EntityTypeFor(rsEid, rsResp), entity_id |-> rsEid]>>
    /\ rsPosts' = Append(rsPosts, [mode |-> "execute", targets |-> rsTargets'])
    /\ UNCHANGED <<rsEid, rsResp>>

\* The execute POST settles: approve() goes on to await load(), or to its
\* catch branch; either way it sends nothing more to the execute endpoint.
ResolveExecuteSettle(r) ==
    /\ rsPc = "done"
    /\ rsPc' = IF r.net /\ Ok(r) THEN "reload" ELSE "failed"
    /\ UNCHANGED <<rsEid, rsResp, rsTargets, rsPosts>>

InitResolve == ResolveInit /\ PollOff /\ StreamOff /\ ApiOff /\ DockOff /\ PagesOff /\ BaseOff /\ GraphOff /\ RouteOff
NextResolve ==
    \/ ResolveDone /\ UNCHANGED otherThanResolve
    \/ \E r \in ExecResponses : ResolveExecuteSettle(r) /\ UNCHANGED otherThanResolve
SpecResolve == InitResolve /\ [][NextResolve]_vars

\* C1: if the results hold an entry whose id, name or title equals the
\* entity id, the entity type is a label of the first such entry, otherwise
\* of the first result (an entry labelled just "Machine" yields "Machine");
\* with no results, or no label on that entry, it is "Service".
C1_Results ==
    IF rsResp.net /\ Ok(rsResp) /\ rsResp.json /\ rsResp.data.isArray
    THEN rsResp.data.results ELSE <<>>
C1_Matches ==
    {i \in DOMAIN C1_Results :
        rsEid \in {C1_Results[i].props.id, C1_Results[i].props.name, C1_Results[i].props.title}}
C1_Chosen ==
    IF C1_Matches = {} THEN C1_Results[1]
    ELSE C1_Results[CHOOSE i \in C1_Matches : \A j \in C1_Matches : i <= j]
C1_EntityType ==
    rsPc = "done" =>
        LET t == rsTargets[1].entity_type
        IN  IF C1_Results = <<>> \/ C1_Chosen.labels = <<>> THEN t = "Service"
            ELSE /\ InSeq(t, C1_Chosen.labels)
                 /\ C1_Chosen.labels = <<"Machine">> => t = "Machine"

\* The exact id match labelled "Machine" comes second, after a Service.
C1_Witness ==
    /\ rsPc = "done"
    /\ rsEid = "M-42"
    /\ C1_Results = <<Entry("order-service", "Order Service", Absent, <<"Service">>),
                      Entry("M-42", "Press 42", Absent, <<"Machine">>)>>
    /\ rsTargets[1].entity_type = "Machine"

\* C17: an approval has sent no execute request while its search is
\* pending and exactly one from the moment the search settles, whatever the
\* search answered; the request carries exactly one target, with the row's
\* entity_id and a non-empty entity_type, which is "Service" whenever the
\* search gave no results or the chosen result has no label.
C17_OneExecute ==
    /\ rsPc = "call" => rsPosts = <<>>
    /\ rsPc \in {"done", "reload", "failed"} =>
          /\ Len(rsPosts) = 1
          /\ rsPosts[1].mode = "execute"
          /\ Len(rsPosts[1].targets) = 1
          /\ rsPosts[1].targets[1].entity_id = rsEid
          /\ rsPosts[1].targets[1].entity_type \notin {"", Null, Absent}
          /\ (C1_Results = <<>> \/ C1_Chosen.labels = <<>>) =>
                rsPosts[1].targets[1].entity_type = "Service"

\* The search failed in transport and the approval still posted its one
\* request, for a Service; the POST has settled since.
C17_Witness ==
    /\ rsPc = "failed"
    /\ ~rsResp.net
    /\ rsPosts = <<[mode |-> "execute",
                    targets |-> <<[entity_type |-> "Service", entity_id |-> rsEid]>>]>>

(***************************************************************************)
(* SpecStream: the live-stream widgets StreamTicker, EventTicker and       *)
(* NotificationCenter.                                                     *)
(***************************************************************************)
ST == "StreamTicker"
ET == "EventTicker"
NC == "NotificationCenter"
Widgets == {ST, ET, NC}

\* .slice(0, 50) / .slice(0, 12) / .slice(0, 5)
StreamTickerWindow == 50
EventTickerWindow == 12
NotificationWindow == 5
Window(w) ==
    IF w = ST THEN StreamTickerWindow
    ELSE IF w = ET THEN EventTickerWindow
    ELSE NotificationWindow

\* A message on the wire: the seq-th of its connection.  kind "object" is
\* the JSON text of an event object ({"topic": ..., "ts": ...}), "null" the
\* JSON text null, "text" a payload that is not JSON.
PayloadKinds == {"object", "text", "null"}
Payload(k, kind) == [seq |-> k, kind |-> kind]

\* JSON.parse(e.data) returns (rather than throws).
Parses(pl) == pl.kind # "text"

\* A list entry: how it was made from which payload.  "parsed" is the value
\* JSON.parse gave, "wrapped" is {raw: e.data}, "summary" is
\* `${asObj.topic} @ ${asObj.ts}`, "data" is e.data itself.
Item(form, pl) == [form |-> form, seq |-> pl.seq, kind |-> pl.kind]
StreamTickerItem(pl) == IF Parses(pl) THEN Item("parsed", pl) ELSE Item("wrapped", pl)
\* asObj.topic throws on null, inside the try.
EventTickerItem(pl) ==
    IF Parses(pl) /\ pl.kind # "null" THEN Item("summary", pl) ELSE Item("data", pl)
NotificationItem(pl) == Item("data", pl)
ItemOf(w, pl) ==
    IF w = ST THEN StreamTickerItem(pl)
    ELSE IF w = ET THEN EventTickerItem(pl)
    ELSE NotificationItem(pl)

\* seq.slice(0, n)
Take(seq, n) == SubSeq(seq, 1, IF Len(seq) < n THEN Len(seq) ELSE n)

\* setX(prev => [entry, ...prev].slice(0, W))
PushNoSlice(w, list, pl) == <<ItemOf(w, pl)>> \o list
Push(w, list, pl) == Take(<<ItemOf(w, pl)>> \o list, Window(w))

\* A WebSocket: readyState, whether close() was called on it, whether the
\* open handler has sent the subscription.
NewSocket == [state |-> "connecting", closeCalled |-> FALSE, subscribed |-> FALSE]
\* ws.close(): starts the closing handshake unless already closing or closed.
CloseIfOpen(sock) ==
    IF sock.state = "open" THEN [sock EXCEPT !.closeCalled = TRUE, !.state = "closing"] ELSE sock
CloseSocket(sock) ==
    [sock EXCEPT !.closeCalled = TRUE,
                 !.state = IF @ \in {"connecting", "open"} THEN "closing" ELSE @]

StreamInit ==
    /\ widget \in Widgets
    /\ wPhase = "init"
    /\ mounts = 0
    /\ socks = <<>>
    /\ items = <<>>
    /\ got = 0
    /\ kinds = <<>>

\* useEffect(() => { const ws = new WebSocket(...); ...handlers... }, []) of
\* a fresh instance (useState([])).
MountWidget ==
    /\ wPhase \in {"init", "unmounted"}
    /\ mounts < MaxMounts
    /\ wPhase' = "mounted"
    /\ mounts' = mounts + 1
    /\ socks' = Append(socks, NewSocket)
    /\ items' = <<>>
    /\ got' = 0
    /\ kinds' = <<>>
    /\ UNCHANGED widget

\* The open handler: ws.send(subscription).
OnOpen(i) ==
    /\ socks[i].state = "connecting"
    /\ socks' = [socks EXCEPT ![i].state = "open", ![i].subscribed = TRUE]
    /\ UNCHANGED <<widget, wPhase, mounts, items, got, kinds>>

\* The message handler, on the open socket of the mounted instance.
OnMessageDropsText(kind) ==
    /\ wPhase = "mounted"
    /\ socks[mounts].state = "open"
    /\ got < MaxMsgs
    /\ got < MaxVaried \/ kind = "object"
    /\ items' = IF kind = "text" THEN items ELSE Push(widget, items, Payload(got + 1, kind))
    /\ got' = got + 1
    /\ kinds' = IF got < MaxVaried THEN Append(kinds, kind) ELSE kinds
    /\ UNCHANGED <<widget, wPhase, mounts, socks>>
OnMessage(kind) ==
    /\ wPhase = "mounted"
    /\ socks[mounts].state = "open"
    /\ got < MaxMsgs
    /\ got < MaxVaried \/ kind = "object"
    /\ items' = Push(widget, items, Payload(got + 1, kind))
    /\ got' = got + 1
    /\ kinds' = IF got < MaxVaried THEN Append(kinds, kind) ELSE kinds
    /\ UNCHANGED <<widget, wPhase, mounts, socks>>

\* The connection drops (server or network): no handler of the widgets
\* listens for close or error.
Drop(i) ==
    /\ socks[i].state \in {"connecting", "open"}
    /\ socks' = [socks EXCEPT ![i].state = "closed"]
    /\ UNCHANGED <<widget, wPhase, mounts, items, got, kinds>>

\* The cleanup of the effect: ws.close().
UnmountWidget ==
    /\ wPhase = "mounted"
    /\ wPhase' = "unmounted"
    /\ socks' = [socks EXCEPT ![mounts] = CloseSocket(@)]
    /\ UNCHANGED <<widget, mounts, items, got, kinds>>

\* The closing handshake ends.
Closed(i) ==
    /\ socks[i].state = "closing"
    /\ socks' = [socks EXCEPT ![i].state = "closed"]
    /\ UNCHANGED <<widget, wPhase, mounts, items, got, kinds>>

InitStream == StreamInit /\ PollOff /\ ResolveOff /\ ApiOff /\ DockOff /\ PagesOff /\ BaseOff /\ GraphOff /\ RouteOff
NextStream ==
    \/ MountWidget /\ UNCHANGED otherThanStream
    \/ \E i \in DOMAIN socks : OnOpen(i) /\ UNCHANGED otherThanStream
    \/ \E k \in PayloadKinds : OnMessage(k) /\ UNCHANGED otherThanStream
    \/ \E i \in DOMAIN socks : Drop(i) /\ UNCHANGED otherThanStream
    \/ UnmountWidget /\ UNCHANGED otherThanStream
    \/ \E i \in DOMAIN socks : Closed(i) /\ UNCHANGED otherThanStream
SpecStream == InitStream /\ [][NextStream]_vars

C8_OneSocketPerMount ==
    /\ Len(socks) = mounts
    /\ \A i \in DOMAIN socks :
          (i < mounts \/ wPhase = "unmounted") =>
              socks[i].closeCalled /\ socks[i].state \in {"closing", "closed"}

\* The first mount ended before its socket ever opened; the socket of the
\* second mount has dropped and the widget, still mounted, has no other.
C8_Witness ==
    /\ wPhase = "mounted"
    /\ mounts = 2
    /\ socks[1].closeCalled /\ ~socks[1].subscribed
    /\ socks[2].state = "closed" /\ ~socks[2].closeCalled /\ socks[2].subscribed

Statuses == {200, 201, 204, 299, 300, 304, 400, 404, 500, 503}
StatusText(st) ==
    CASE st = 200 -> "OK" [] st = 201 -> "Created" [] st = 204 -> "No Content"
      [] st = 299 -> "" [] st = 300 -> "Multiple Choices" [] st = 304 -> "Not Modified"
      [] st = 400 -> "Bad Request" [] st = 404 -> "Not Found"
      [] st = 500 -> "Internal Server Error" [] OTHER -> "Service Unavailable"
ApiValues == {PlainObject, Wrapped(<<A1>>), Bare(<<A1, A2>>)}
ApiResponses ==
    {NetFail}
    \cup {Response(TRUE, st, StatusText(st), TRUE, d, "json") : st \in Statuses, d \in ApiValues}
    \cup {Response(TRUE, st, StatusText(st), FALSE, PlainObject, "not json") : st \in Statuses}

\* export async function getJSON(path)
getJSONNoStatusCheck(r) ==
    IF ~r.net THEN Threw(<<"Failed to fetch">>)
    ELSE IF ~r.json THEN Threw(<<"Unexpected token">>)
    ELSE Returned(r.data)
getJSON(r) ==
    IF ~r.net THEN Threw(<<"Failed to fetch">>)
    ELSE IF ~Ok(r) THEN Threw(<<ToString(r.status), r.statusText>>)
    ELSE IF ~r.json THEN Threw(<<"Unexpected token">>)
    ELSE Returned(r.data)

\* export async function postJSON(path, body)
postJSON(r) ==
    IF ~r.net THEN Threw(<<"Failed to fetch">>)
    ELSE IF ~Ok(r) THEN Threw(<<ToString(r.status), r.statusText>>)
    ELSE IF ~r.json THEN Threw(<<"Unexpected token">>)
    ELSE Returned(r.data)

ApiInit ==
    /\ apiPc = "call"
    /\ apiFn \in {"getJSON", "postJSON"}
    /\ apiResp \in ApiResponses
    /\ apiOut = <<>>

\* The awaited fetch settles and the function returns or throws.
ApiSettle ==
    /\ apiPc = "call"
    /\ apiPc' = "done"
    /\ apiOut' = IF apiFn = "getJSON" THEN getJSON(apiResp) ELSE postJSON(apiResp)
    /\ UNCHANGED <<apiFn, apiResp>>

InitApi == ApiInit /\ PollOff /\ ResolveOff /\ StreamOff /\ DockOff /\ PagesOff /\ BaseOff /\ GraphOff /\ RouteOff
NextApi == ApiSettle /\ UNCHANGED otherThanApi
SpecApi == InitApi /\ [][NextApi]_vars

\* C6: getJSON returns the decoded JSON body of a 2xx response unchanged
\* and, for every non-2xx response, throws an error whose message contains
\* the status code; it returns nothing for a non-2xx response.  (A 2xx
\* response whose body is not JSON has no decoded body: res.json() rejects.)
C6_GetJSON ==
    (apiPc = "done" /\ apiFn = "getJSON" /\ apiResp.net) =>
        /\ (apiResp.status \in 200..299 /\ apiResp.json) =>
                ~apiOut.threw /\ apiOut.value = apiResp.data
        /\ apiResp.status \notin 200..299 =>
                apiOut.threw /\ InSeq(ToString(apiResp.status), apiOut.message)

\* A GET answered 404 with a JSON error body has thrown "404 Not Found".
C6_Witness ==
    /\ apiPc = "done" /\ apiFn = "getJSON"
    /\ apiResp.status = 404 /\ apiResp.json
    /\ apiOut.threw /\ apiOut.message = <<"404", "Not Found">>

(***************************************************************************)
(* SpecDock: AgentDock.tsx, the submit handler ask() and the toggles.      *)
(***************************************************************************)
\* What the user can type.
DockMessages == {"", "   ", "incidents last 2h"}
\* msg.trim()
Trim(m) == IF m \in {"", "   "} THEN "" ELSE m

\* useState resp: null, or the object last handed to setResp.
NoResp == [set |-> FALSE, reply |-> Absent, confidence |-> Absent, reasoning_summary |-> Absent]
Resp(reply, conf, summary) ==
    [set |-> TRUE, reply |-> reply, confidence |-> conf, reasoning_summary |-> summary]
\* { reply: String(err), confidence: 0.0, reasoning_summary: "Client error" }
ClientError(description) == Resp(description, "0", "Client error")

\* Decoded bodies of /agent/query: an AgentReply, or an error object such as
\* {"detail": "..."} with none of the fields the dock renders.
AgentReply == Resp("2 open incidents", "0.87", "graph lookup")
ErrorDetail == Resp(Absent, Absent, Absent)
DockResponses ==
    {NetFail,
     Response(TRUE, 200, "OK", TRUE, AgentReply, "json"),
     Response(TRUE, 200, "OK", FALSE, ErrorDetail, "not json"),
     Response(TRUE, 500, "Internal Server Error", TRUE, ErrorDetail, "json"),
     Response(TRUE, 422, "Unprocessable Entity", TRUE, ErrorDetail, "json"),
     Response(TRUE, 502, "Bad Gateway", FALSE, ErrorDetail, "<html>")}

NotSettled == [settled |-> FALSE, resp |-> NetFail]

DockInit ==
    /\ dkOpen = TRUE
    /\ dkMsg = ""
    /\ dkBusy = FALSE
    /\ dkResp = NoResp
    /\ dkShowReason = FALSE
    /\ dkPending = 0
    /\ dkLast = NotSettled
    /\ dkEscaped = FALSE

\* <input onChange={e => setMsg(e.target.value)}>
Type(m) ==
    /\ dkOpen
    /\ dkMsg' = m
    /\ UNCHANGED <<dkOpen, dkBusy, dkResp, dkShowReason, dkPending, dkLast, dkEscaped>>

\* <button onClick={() => setOpen(!open)}>
ToggleOpen ==
    /\ dkOpen' = ~dkOpen
    /\ UNCHANGED <<dkMsg, dkBusy, dkResp, dkShowReason, dkPending, dkLast, dkEscaped>>

\* <button onClick={() => setShowReason(v => !v)}>, rendered when resp is set.
ToggleReason ==
    /\ dkOpen
    /\ dkResp.set
    /\ dkShowReason' = ~dkShowReason
    /\ UNCHANGED <<dkOpen, dkMsg, dkBusy, dkResp, dkPending, dkLast, dkEscaped>>

\* ask() with a blank message: if (!msg.trim()) return.
AskBlank ==
    /\ dkOpen
    /\ ~dkBusy
    /\ Trim(dkMsg) = ""
    /\ UNCHANGED dockVars

\* ask() up to the await of fetch; the submit button is disabled while busy.
Ask ==
    /\ dkOpen
    /\ ~dkBusy
    /\ Trim(dkMsg) # ""
    /\ dkBusy' = TRUE
    /\ dkShowReason' = FALSE
    /\ dkPending' = dkPending + 1
    /\ UNCHANGED <<dkOpen, dkMsg, dkResp, dkLast, dkEscaped>>

\* What ask() hands to setResp once the exchange r is over: r.json() of any
\* response, whatever its status, or the catch branch.
AskResult(r) ==
    IF ~r.net THEN ClientError("TypeError: Failed to fetch")
    ELSE IF ~r.json THEN ClientError("SyntaxError: Unexpected token")
    ELSE r.data

\* The request settles: try / catch / finally of ask().
DockSettle(r) ==
    /\ dkPending > 0
    /\ dkPending' = dkPending - 1
    /\ dkResp' = AskResult(r)
    /\ dkBusy' = FALSE
    /\ dkLast' = [settled |-> TRUE, resp |-> r]
    /\ dkEscaped' = FALSE
    /\ UNCHANGED <<dkOpen, dkMsg, dkShowReason>>

\* The panel's rendering: Number(resp.confidence || 0).
ShownConfidence(resp) == IF resp.confidence = Absent THEN "0" ELSE resp.confidence

InitDock == DockInit /\ PollOff /\ ResolveOff /\ StreamOff /\ ApiOff /\ PagesOff /\ BaseOff /\ GraphOff /\ RouteOff
NextDock ==
    \/ \E m \in DockMessages : Type(m) /\ UNCHANGED otherThanDock
    \/ ToggleOpen /\ UNCHANGED otherThanDock
    \/ ToggleReason /\ UNCHANGED otherThanDock
    \/ AskBlank /\ UNCHANGED otherThanDock
    \/ Ask /\ UNCHANGED otherThanDock
    \/ \E r \in DockResponses : DockSettle(r) /\ UNCHANGED otherThanDock
SpecDock == InitDock /\ [][NextDock]_vars

\* C7: whenever the last submission suffered a transport failure (network
\* unreachable or a non-2xx status), the dock shows the error's description
\* as reply, confidence 0 and the summary "Client error", and no exception
\* has escaped the handler.
C7_TransportFailureShown ==
    (dkLast.settled /\ (~dkLast.resp.net \/ dkLast.resp.status \notin 200..299)) =>
        /\ dkResp.set
        /\ dkResp.reply # Absent
        /\ ShownConfidence(dkResp) = "0"
        /\ dkResp.reasoning_summary = "Client error"
        /\ ~dkEscaped

\* C18: while a submission's request is in flight the dock is busy (the
\* submit control is disabled) and the reasoning detail is hidden; once the
\* request has settled, whatever its outcome, the dock is no longer busy
\* and shows a reply; and no step taken while the message is blank starts a
\* request or makes the dock busy.
C18_BusyWhileAsking ==
    [][/\ dkPending' > 0 => dkBusy' /\ ~dkShowReason'
       /\ (dkLast'.settled /\ dkPending' = 0) =>
             ~dkBusy' /\ dkResp'.set /\ dkResp'.reply # Absent
       /\ Trim(dkMsg) = "" => dkPending' <= dkPending /\ (dkBusy' => dkBusy)]_vars


(***************************************************************************)
(* SpecPages: the data-loading routine of each page.                       *)
(***************************************************************************)
Home == "Home"
Reports == "Reports"
GraphExplorer == "GraphExplorer"
IncidentDetail == "IncidentDetail"
Incidents == "Incidents"
Runbooks == "Runbooks"
Pages == {Home, Reports, GraphExplorer, IncidentDetail, Incidents, Runbooks}

\* How many fetches the routine starts together (Promise.all of two, or one).
FetchCount(pg) == IF pg \in {GraphExplorer, Runbooks} THEN 1 ELSE 2

PendingFetch == [settled |-> FALSE, resp |-> NetFail]
Settled(r) == [settled |-> TRUE, resp |-> r]
\* Answers of the backend to a page's GET: 404 with a JSON error body, 500
\* with an HTML body, 200 with JSON, 200 with a body that is not JSON.
PageResponses ==
    {NetFail,
     Response(TRUE, 404, "Not Found", TRUE, PlainObject, "json"),
     Response(TRUE, 500, "Internal Server Error", FALSE, PlainObject, "<html>"),
     OkJson(PlainObject),
     OkText}

\* Whether the promise the routine awaits for one fetch rejects, and with
\* which message:
\*   Home, Reports, GraphExplorer   getJSON(path)
\*   Incidents                      fetch(url).then(r => r.json())
\*   IncidentDetail                 fetch(url)
\*   Runbooks                       fetch(url), then the r.ok test and r.json()
FetchOutcome(pg, r) ==
    IF pg \in {Home, Reports, GraphExplorer} THEN getJSON(r)
    ELSE IF pg = Runbooks THEN fetchJSON(r)
    ELSE IF pg = Incidents THEN
        (IF ~r.net THEN Threw(<<"Failed to fetch">>)
         ELSE IF ~r.json THEN Threw(<<"Unexpected token">>)
         ELSE Returned(r.data))
    ELSE (IF ~r.net THEN Threw(<<"Failed to fetch">>) ELSE Returned(r.data))

\* IncidentDetail: await iRes.json(); await tRes.json() after Promise.all.
DecodeFails(pg, r) == pg = IncidentDetail /\ r.net /\ ~r.json

\* What becomes of an error thrown in the routine:
\*   Incidents, Runbooks   catch (e) { setErr(e.message || ...) }
\*   Home, Reports         .catch(console.error)
\*   GraphExplorer, IncidentDetail   nothing catches it
Handling(pg) ==
    IF pg \in {Incidents, Runbooks} THEN "inline"
    ELSE IF pg \in {Home, Reports} THEN "logged"
    ELSE "unhandled"

PageFallback(pg) ==
    IF pg = Incidents THEN <<"Failed to load incidents/alerts">> ELSE <<"Failed to load runbooks">>

PagesInit ==
    /\ page \in Pages
    /\ pgPc = "init"
    /\ pgFetch = <<>>
    /\ pgErr = EmptyText
    /\ pgData = FALSE
    /\ pgUnhandled = FALSE
    /\ pgLogged = FALSE

\* The effect on mount (GraphExplorer: the form's submit handler; Runbooks:
\* also the Refresh button): start the fetches.  Incidents and Runbooks
\* first setErr("").
PageStart ==
    /\ \/ pgPc = "init"
       \/ pgPc = "settled" /\ page \in {GraphExplorer, Runbooks}
                           /\ \A i \in DOMAIN pgFetch : pgFetch[i].settled
    /\ pgPc' = "loading"
    /\ pgFetch' = [i \in 1..FetchCount(page) |-> PendingFetch]
    /\ pgErr' = EmptyText
    /\ pgData' = FALSE
    /\ UNCHANGED <<page, pgUnhandled, pgLogged>>

\* One fetch settles.
FetchSettle(i, r) ==
    /\ ~pgFetch[i].settled
    /\ pgFetch' = [pgFetch EXCEPT ![i] = Settled(r)]
    /\ UNCHANGED <<page, pgPc, pgErr, pgData, pgUnhandled, pgLogged>>

\* An error with message m is thrown in the routine.
PageThrows(m) ==
    /\ pgPc' = "settled"
    /\ pgErr' = IF Handling(page) = "inline" THEN OrElse(m, PageFallback(page)) ELSE pgErr
    /\ pgLogged' = (pgLogged \/ Handling(page) = "logged")
    /\ pgUnhandled' = (pgUnhandled \/ Handling(page) = "unhandled")
    /\ UNCHANGED <<page, pgFetch, pgData>>

\* Promise.all rejects as soon as one of its promises does.
PageRejected(i) ==
    /\ pgPc = "loading"
    /\ pgFetch[i].settled
    /\ FetchOutcome(page, pgFetch[i].resp).threw
    /\ PageThrows(FetchOutcome(page, pgFetch[i].resp).message)

\* Every promise is fulfilled: decode (IncidentDetail) and call the setters.
PageLoaded ==
    /\ pgPc = "loading"
    /\ \A i \in DOMAIN pgFetch :
          pgFetch[i].settled /\ ~FetchOutcome(page, pgFetch[i].resp).threw
    /\ IF \E i \in DOMAIN pgFetch : DecodeFails(page, pgFetch[i].resp)
       THEN PageThrows(<<"Unexpected token">>)
       ELSE /\ pgPc' = "settled"
            /\ pgData' = TRUE
            /\ UNCHANGED <<page, pgFetch, pgErr, pgUnhandled, pgLogged>>

InitPages == PagesInit /\ PollOff /\ ResolveOff /\ StreamOff /\ ApiOff /\ DockOff /\ BaseOff /\ GraphOff /\ RouteOff
NextPages ==
    \/ PageStart /\ UNCHANGED otherThanPages
    \/ \E i \in DOMAIN pgFetch, r \in PageResponses : FetchSettle(i, r) /\ UNCHANGED otherThanPages
    \/ \E i \in DOMAIN pgFetch : PageRejected(i) /\ UNCHANGED otherThanPages
    \/ PageLoaded /\ UNCHANGED otherThanPages
SpecPages == InitPages /\ [][NextPages]_vars

\* A fetch of the routine met a transport failure: the network was
\* unreachable or the status was not 2xx.
TransportFailure(f) == f.settled /\ (~f.resp.net \/ f.resp.status \notin 200..299)

\* C10: once a page's loading routine has run to its end, a transport
\* failure of one of its fetches is shown as an inline error text and no
\* rejection is left unhandled.
C10_FailuresShownInline ==
    (pgPc = "settled" /\ \E i \in DOMAIN pgFetch : TransportFailure(pgFetch[i])) =>
        pgErr # EmptyText /\ ~pgUnhandled

(***************************************************************************)
(* SpecBase: the API base address each module computes when it is loaded.  *)
(***************************************************************************)
Undefined == "undefined"
DefaultBase == "http://localhost:8000"
OverrideBase == "http://ops.example:9000"
EnvBase == "http://api.example:8080"
\* window.__API_BASE__ and VITE_API_BASE as the page and the build supply them.
Overrides == {Undefined, "", OverrideBase}
EnvValues == {Undefined, "", EnvBase, "http://api.example:8080/"}

ApiIndex == "api/index.ts"
LibApi == "lib/api.ts"
Modules == {ApiIndex, LibApi, "ProposedActions", "AgentActionsAudit", "Runbooks",
            "AgentAskRunbook", "Incidents", "AgentDock"}

\* a || b on strings: undefined and "" are falsy.
Truthy(v) == v \notin {Undefined, ""}
Or(a, b) == IF Truthy(a) THEN a ELSE b
\* a ?? b
Coalesce(a, b) == IF a = Undefined THEN b ELSE a
\* v?.replace(/\/$/, "")
StripSlash(v) == IF v = "http://api.example:8080/" THEN EnvBase ELSE v

\* The initializer of the module's constant.
BaseOf(m, override, env) ==
    CASE m = ApiIndex -> Or(StripSlash(env), DefaultBase)
      [] m = LibApi -> DefaultBase
      [] m \in {"ProposedActions", "AgentActionsAudit", "Runbooks", "AgentAskRunbook"} ->
            Or(Or(override, env), DefaultBase)
      [] m = "Incidents" -> Or(env, DefaultBase)
      [] OTHER -> Coalesce(env, DefaultBase)

BaseInit ==
    /\ abModule \in Modules
    /\ abOverride \in Overrides
    /\ abEnv \in EnvValues
    /\ abPc = "load"
    /\ abBase = ""

\* The module is evaluated.
LoadModule ==
    /\ abPc = "load"
    /\ abPc' = "done"
    /\ abBase' = BaseOf(abModule, abOverride, abEnv)
    /\ UNCHANGED <<abModule, abOverride, abEnv>>

InitBase == BaseInit /\ PollOff /\ ResolveOff /\ StreamOff /\ ApiOff /\ DockOff /\ PagesOff /\ GraphOff /\ RouteOff
NextBase == LoadModule /\ UNCHANGED otherThanBase
SpecBase == InitBase /\ [][NextBase]_vars

\* C11: the base address of the client layer (api/index.ts, lib/api.ts) and
\* of the components that compute their own is the runtime override when one
\* is set, otherwise the build-time value when one is set (a trailing slash
\* aside), otherwise http://localhost:8000.
C11_BasePriority ==
    abPc = "done" =>
        abBase = (IF Truthy(abOverride) THEN abOverride
                  ELSE IF Truthy(abEnv) THEN StripSlash(abEnv)
                  ELSE DefaultBase)
           \/ (~Truthy(abOverride) /\ abBase = abEnv /\ Truthy(abEnv))

(***************************************************************************)
(* SpecGraph: the bootstrap scripts (schema, then seed data) applied to a  *)
(* graph database.  The scripts are taken clause by clause in file order;  *)
(* a variable keeps the node its last MERGE bound it to.                   *)
(***************************************************************************)
NoProps == <<>>

\* CREATE CONSTRAINT name IF NOT EXISTS FOR (n:Label) REQUIRE n.prop IS UNIQUE
Constraint(name, label, prop) ==
    [kind |-> "constraint", name |-> name, label |-> label, prop |-> prop, guarded |-> TRUE]
\* CREATE FULLTEXT INDEX name IF NOT EXISTS FOR (n:L1|L2|...) ON EACH [...]
FullTextIndex(name, labels, props) ==
    [kind |-> "index", name |-> name, labels |-> labels, props |-> props, guarded |-> TRUE]

\* MERGE (v:Label {pat}) ON CREATE SET ..., v.created_at=datetime()
\*                       ON MATCH SET v.updated_at=datetime()
Upsert(v, label, pat, set) ==
    [kind |-> "node", var |-> v, label |-> label, pat |-> pat, set |-> set, stamped |-> TRUE]
\* MERGE (v:Label {pat})
MergeNode(v, label, pat) ==
    [kind |-> "node", var |-> v, label |-> label, pat |-> pat, set |-> NoProps, stamped |-> FALSE]
\* MERGE (a)-[:TYPE {pat}]->(b)
MergeRel(a, type, pat, b) ==
    [kind |-> "rel", from |-> a, type |-> type, pat |-> pat, to |-> b]

\* part_000 lines 16-39
SchemaConstraints ==
    <<
      Constraint("site_id", "Site", "id"),
      Constraint("plant_id", "Plant", "id"),
      Constraint("line_id", "Line", "id"),
      Constraint("machine_id", "Machine", "id"),
      Constraint("sensor_id", "Sensor", "id"),
      Constraint("service_id", "Service", "id"),
      Constraint("database_id", "Database", "id"),
      Constraint("team_id", "Team", "id"),
      Constraint("incident_id", "Incident", "id"),
      Constraint("alert_id", "Alert", "id"),
      Constraint("ticket_id", "Ticket", "id"),
      Constraint("runbook_id", "Runbook", "id"),
      Constraint("action_id", "AgentAction", "id"),
      Constraint("api_id", "API", "id"),
      Constraint("topic_id", "Topic", "id"),
      Constraint("server_id", "Server", "id"),
      Constraint("netdev_id", "NetworkDevice", "id"),
      Constraint("user_id", "User", "id"),
      Constraint("alerttype_id", "AlertType", "id")
    >>
\* part_000 lines 41-44
EntityTextIndex ==
    FullTextIndex("entity_text",
                  {"Service", "Machine", "Line", "Plant", "Database", "Sensor", "API",
                   "Server", "Topic", "Incident", "Alert", "Team"},
                  <<"id", "name", "title">>)
Schema == Append(SchemaConstraints, EntityTextIndex)

\* part_000 lines 45-98
SeedNodes ==
    <<
      Upsert("site", "Site", [id |-> "Site-1"], [name |-> "Factory Campus"]),
      Upsert("plant", "Plant", [id |-> "Plant-A"], [name |-> "Plant A"]),
      Upsert("line", "Line", [id |-> "Line-3"], [name |-> "Assembly Line 3"]),
      Upsert("m1", "Machine", [id |-> "M-42"], [name |-> "Cutter M-42", criticality |-> "high"]),
      Upsert("m2", "Machine", [id |-> "P-7"], [name |-> "Pump P-7", criticality |-> "high"]),
      Upsert("s22", "Sensor", [id |-> "S-22"], [name |-> "Vibration S-22"]),
      Upsert("svc", "Service", [id |-> "order-service"], [name |-> "Order Service", tier |-> "2"]),
      Upsert("db", "Database", [id |-> "orders-db"], [name |-> "Orders DB", engine |-> "postgres"]),
      Upsert("api", "API", [id |-> "payments-api"], [name |-> "Payments API", version |-> "v1"]),
      Upsert("srv", "Server", [id |-> "srv-10"], [name |-> "App Server 10", az |-> "us-east-1a"]),
      Upsert("topic1", "Topic", [id |-> "orders-events"], [name |-> "orders-events", partitions |-> "6"]),
      Upsert("team", "Team", [id |-> "Team-A"], [name |-> "Core Platform"]),
      Upsert("user", "User", [id |-> "sre-1"], [name |-> "On-Call SRE 1", role |-> "SRE"])
    >>

\* part_000 lines 99-150
SeedRelationships ==
    <<
      MergeNode("site", "Site", [id |-> "Site-1"]),
      MergeNode("plant", "Plant", [id |-> "Plant-A"]),
      MergeRel("site", "HAS_PLANT", NoProps, "plant"),
      MergeNode("plant", "Plant", [id |-> "Plant-A"]),
      MergeNode("line", "Line", [id |-> "Line-3"]),
      MergeRel("plant", "HAS_LINE", NoProps, "line"),
      MergeNode("line", "Line", [id |-> "Line-3"]),
      MergeNode("m1", "Machine", [id |-> "M-42"]),
      MergeRel("line", "HAS_MACHINE", NoProps, "m1"),
      MergeNode("line", "Line", [id |-> "Line-3"]),
      MergeNode("m2", "Machine", [id |-> "P-7"]),
      MergeRel("line", "HAS_MACHINE", NoProps, "m2"),
      MergeNode("m1", "Machine", [id |-> "M-42"]),
      MergeNode("s22", "Sensor", [id |-> "S-22"]),
      MergeRel("m1", "HAS_SENSOR", NoProps, "s22"),
      MergeNode("svc", "Service", [id |-> "order-service"]),
      MergeNode("srv", "Server", [id |-> "srv-10"]),
      MergeRel("svc", "RUNS_ON", [strength |-> "critical"], "srv"),
      MergeNode("db", "Database", [id |-> "orders-db"]),
      MergeRel("svc", "USES_DB", [dependency_type |-> "READS_FROM", strength |-> "critical"], "db"),
      MergeNode("api", "API", [id |-> "payments-api"]),
      MergeRel("svc", "CALLS_API", [dependency_type |-> "USES", strength |-> "normal"], "api"),
      MergeNode("topic1", "Topic", [id |-> "orders-events"]),
      MergeRel("svc", "PUBLISHES_TO", NoProps, "topic1"),
      Upsert("svc2", "Service", [id |-> "billing-service"], [name |-> "Billing Service", tier |-> "2"]),
      MergeRel("svc2", "CONSUMES_FROM", NoProps, "topic1"),
      MergeNode("team", "Team", [id |-> "Team-A"]),
      MergeRel("svc", "OWNED_BY", NoProps, "team"),
      MergeRel("svc2", "OWNED_BY", NoProps, "team")
    >>

\* part_000 lines 151-179
SeedIncidents ==
    <<
      Upsert("inc", "Incident", [id |-> "INC-1001"], [title |-> "Line-3 throughput drop", severity |-> "high", status |-> "open"]),
      MergeNode("m2", "Machine", [id |-> "P-7"]),
      MergeNode("svc", "Service", [id |-> "order-service"]),
      MergeRel("inc", "AFFECTS", NoProps, "m2"),
      MergeRel("inc", "AFFECTS", NoProps, "svc"),
      Upsert("al", "Alert", [id |-> "ALERT-5001"], [name |-> "Vibration high S-22", severity |-> "warning", source |-> "monitoring"]),
      MergeNode("s22", "Sensor", [id |-> "S-22"]),
      MergeRel("al", "ABOUT", NoProps, "s22"),
      Upsert("al2", "Alert", [id |-> "ALERT-5002"], [name |-> "Pump P-7 temp spike", severity |-> "warning", source |-> "monitoring"]),
      MergeRel("al", "CORRELATED_WITH", NoProps, "al2"),
      Upsert("t", "Ticket", [id |-> "TIC-9001"], [title |-> "Investigate Line-3", status |-> "open"]),
      MergeRel("t", "TRACKS", NoProps, "inc")
    >>

\* part_000 lines 180-216
SeedRunbooks ==
    <<
      Upsert("rb", "Runbook", [id |-> "RB-restore-pump"], [name |-> "Restore Pump P-7", risk |-> "low"]),
      MergeNode("svc", "Service", [id |-> "order-service"]),
      MergeRel("rb", "APPLIES_TO", NoProps, "svc"),
      Upsert("atype", "AlertType", [id |-> "vibration-high"], [name |-> "Vibration High"]),
      MergeRel("rb", "APPLIES_TO", NoProps, "atype"),
      Upsert("aa", "AgentAction", [id |-> "ACT-7001"], [action |-> "run_playbook", status |-> "completed"]),
      MergeNode("u", "User", [id |-> "sre-1"]),
      MergeRel("aa", "EXECUTED_BY", NoProps, "u"),
      MergeNode("inc", "Incident", [id |-> "INC-1001"]),
      MergeRel("aa", "RELATES_TO", NoProps, "inc"),
      MergeNode("m2", "Machine", [id |-> "P-7"]),
      MergeRel("aa", "TARGETS", NoProps, "m2"),
      MergeNode("al", "Alert", [id |-> "ALERT-5001"]),
      MergeRel("aa", "BASED_ON", NoProps, "al"),
      MergeRel("aa", "BASED_ON", NoProps, "rb"),
      Upsert("approver", "User", [id |-> "lead-1"], [name |-> "SRE Lead", role |-> "Lead"]),
      MergeRel("aa", "APPROVED_BY", NoProps, "approver")
    >>

\* part_000 lines 217-219
SeedAttached ==
    <<
      MergeNode("s22", "Sensor", [id |-> "S-22"]),
      MergeNode("m1", "Machine", [id |-> "M-42"]),
      MergeRel("s22", "ATTACHED_TO", NoProps, "m1")
    >>

\* part_000 lines 221-236
SeedMinimal ==
    <<
      MergeNode("s", "Service", [id |-> "order-service", name |-> "Order Service"]),
      MergeNode("db", "Database", [id |-> "orders-db", name |-> "Orders DB"]),
      MergeNode("api", "API", [id |-> "payments-api", name |-> "Payments API"]),
      MergeNode("srv", "Server", [id |-> "srv-1", name |-> "K8s Node 1"]),
      MergeNode("t", "Team", [id |-> "team-checkout", name |-> "Checkout Team"]),
      MergeRel("s", "OWNED_BY", NoProps, "t"),
      MergeRel("s", "USES_DB", [dependency_type |-> "READS_FROM", strength |-> "critical"], "db"),
      MergeRel("s", "CALLS_API", [dependency_type |-> "USES", strength |-> "normal"], "api"),
      MergeRel("s", "RUNS_ON", [strength |-> "critical"], "srv"),
      MergeNode("topic", "Topic", [id |-> "orders.events", name |-> "orders.events"]),
      MergeRel("s", "PUBLISHES_TO", NoProps, "topic")
    >>

Seed ==
    SeedNodes \o SeedRelationships \o SeedIncidents \o SeedRunbooks \o SeedAttached
        \o SeedMinimal

\* ---- what the statements do to the database --------------------------------
Node(label, props) == [label |-> label, props |-> props]
Rel(type, a, b, props) == [type |-> type, from |-> a, to |-> b, props |-> props]

\* A pattern {k: v, ...} matches a property map that has every key with
\* that value.
HasProps(props, pat) == \A k \in DOMAIN pat : k \in DOMAIN props /\ props[k] = pat[k]
\* The nodes (n:Label {pat}) matches.
Found(nodes, label, pat) ==
    {i \in DOMAIN nodes : nodes[i].label = label /\ HasProps(nodes[i].props, pat)}
\* The relationships (a)-[:TYPE {pat}]->(b) matches.
FoundRel(edges, type, a, b, pat) ==
    {i \in DOMAIN edges :
        /\ edges[i].type = type /\ edges[i].from = a /\ edges[i].to = b
        /\ HasProps(edges[i].props, pat)}

\* A node with these properties would break, or the nodes already break, a
\* uniqueness constraint.
Clashes(nodes, c, label, props) ==
    /\ c.label = label
    /\ c.prop \in DOMAIN props
    /\ \E i \in DOMAIN nodes :
          /\ nodes[i].label = label
          /\ c.prop \in DOMAIN nodes[i].props
          /\ nodes[i].props[c.prop] = props[c.prop]
Rejected(nodes, constraints, label, props) ==
    \E j \in DOMAIN constraints : Clashes(nodes, constraints[j], label, props)
Duplicated(nodes, label, prop) ==
    \E i, j \in DOMAIN nodes :
        /\ i < j
        /\ nodes[i].label = label /\ nodes[j].label = label
        /\ prop \in DOMAIN nodes[i].props /\ prop \in DOMAIN nodes[j].props
        /\ nodes[i].props[prop] = nodes[j].props[prop]

\* ON CREATE SET: the pattern's properties, the descriptive ones, created_at.
CreatedPatternOnly(st, now) == st.pat
Created(st, now) ==
    IF st.stamped THEN ("created_at" :> now) @@ st.set @@ st.pat ELSE st.pat
\* ON MATCH SET: updated_at only.
Matched(st, props, now) ==
    IF st.stamped THEN ("updated_at" :> now) @@ props ELSE props

\* datetime() while statement pc of run r executes.
Now == <<gRun, gPc>>

First(S) == CHOOSE i \in S : \A j \in S : i <= j

\* MERGE of a node pattern, with or without ON CREATE / ON MATCH.
MergeNodeStep(st) ==
    LET hit == Found(gNodes, st.label, st.pat)
        new == Created(st, Now)
    IN  IF hit # {} THEN
            /\ gNodes' = [i \in DOMAIN gNodes |->
                            IF i \in hit
                            THEN Node(gNodes[i].label, Matched(st, gNodes[i].props, Now))
                            ELSE gNodes[i]]
            /\ gEnv' = (st.var :> First(hit)) @@ gEnv
            /\ UNCHANGED gError
        ELSE IF Rejected(gNodes, gConstraints, st.label, new) THEN
            /\ gError' = TRUE
            /\ UNCHANGED <<gNodes, gEnv>>
        ELSE
            /\ gNodes' = Append(gNodes, Node(st.label, new))
            /\ gEnv' = (st.var :> Len(gNodes) + 1) @@ gEnv
            /\ UNCHANGED gError

\* MERGE of a relationship between two bound variables.
MergeRelStepReversed(st) ==
    IF st.from \notin DOMAIN gEnv \/ st.to \notin DOMAIN gEnv THEN
        gError' = TRUE /\ UNCHANGED gEdges
    ELSE
        /\ gEdges' =
              IF FoundRel(gEdges, st.type, gEnv[st.to], gEnv[st.from], st.pat) # {}
              THEN gEdges
              ELSE Append(gEdges, Rel(st.type, gEnv[st.to], gEnv[st.from], st.pat))
        /\ UNCHANGED gError
MergeRelStep(st) ==
    IF st.from \notin DOMAIN gEnv \/ st.to \notin DOMAIN gEnv THEN
        gError' = TRUE /\ UNCHANGED gEdges
    ELSE
        /\ gEdges' =
              IF FoundRel(gEdges, st.type, gEnv[st.from], gEnv[st.to], st.pat) # {}
              THEN gEdges
              ELSE Append(gEdges, Rel(st.type, gEnv[st.from], gEnv[st.to], st.pat))
        /\ UNCHANGED gError

\* CREATE CONSTRAINT ... IF NOT EXISTS: nothing when a constraint of that
\* name or on that label and property exists.
ConstraintExistsUnchecked(constraints, st) == FALSE
ConstraintExists(constraints, st) ==
    \E j \in DOMAIN constraints :
        \/ constraints[j].name = st.name
        \/ constraints[j].label = st.label /\ constraints[j].prop = st.prop
CreateConstraintStep(st) ==
    IF ConstraintExists(gConstraints, st) THEN
        /\ gError' = (gError \/ ~st.guarded)
        /\ UNCHANGED gConstraints
    ELSE IF Duplicated(gNodes, st.label, st.prop) THEN
        gError' = TRUE /\ UNCHANGED gConstraints
    ELSE
        /\ gConstraints' = Append(gConstraints, st)
        /\ UNCHANGED gError

\* CREATE FULLTEXT INDEX ... IF NOT EXISTS
IndexExists(indexes, st) ==
    \E j \in DOMAIN indexes :
        \/ indexes[j].name = st.name
        \/ indexes[j].labels = st.labels /\ indexes[j].props = st.props
CreateIndexStep(st) ==
    IF IndexExists(gIndexes, st) THEN
        /\ gError' = (gError \/ ~st.guarded)
        /\ UNCHANGED gIndexes
    ELSE
        /\ gIndexes' = Append(gIndexes, st)
        /\ UNCHANGED gError

\* ---- applying the scripts --------------------------------------------------
GraphInit ==
    /\ gNodes = <<>> /\ gEdges = <<>> /\ gConstraints = <<>> /\ gIndexes = <<>>
    /\ gScript = "idle" /\ gPc = 0 /\ gEnv = <<>> /\ gRun = 0
    /\ gSeedLog = <<>> /\ gSchemaLog = <<>> /\ gError = FALSE
    /\ gSnap = <<>> /\ gSchemaSnap = <<>>

\* The operator applies the schema definition.
StartSchema ==
    /\ gScript = "idle"
    /\ gRun < MaxRuns
    /\ gScript' = "schema"
    /\ gPc' = 1
    /\ gRun' = gRun + 1
    /\ gSchemaLog' = Append(gSchemaLog, gRun + 1)
    /\ gEnv' = <<>>
    /\ UNCHANGED <<gNodes, gEdges, gConstraints, gIndexes, gSeedLog, gError, gSnap,
                   gSchemaSnap>>

\* The operator runs the seed statements.
StartSeed ==
    /\ gScript = "idle"
    /\ gRun < MaxRuns
    /\ gScript' = "seed"
    /\ gPc' = 1
    /\ gRun' = gRun + 1
    /\ gSeedLog' = Append(gSeedLog, gRun + 1)
    /\ gEnv' = <<>>
    /\ UNCHANGED <<gNodes, gEdges, gConstraints, gIndexes, gSchemaLog, gError, gSnap,
                   gSchemaSnap>>

\* The next statement of the schema definition.
SchemaStep ==
    /\ gScript = "schema"
    /\ IF Schema[gPc].kind = "constraint"
       THEN CreateConstraintStep(Schema[gPc]) /\ UNCHANGED gIndexes
       ELSE CreateIndexStep(Schema[gPc]) /\ UNCHANGED gConstraints
    /\ gPc' = IF gPc = Len(Schema) THEN 0 ELSE gPc + 1
    /\ gScript' = IF gPc = Len(Schema) THEN "idle" ELSE gScript
    /\ gSchemaSnap' = IF gPc = Len(Schema) /\ Len(gSchemaLog) = 1
                      THEN <<gConstraints', gIndexes'>> ELSE gSchemaSnap
    /\ UNCHANGED <<gNodes, gEdges, gEnv, gRun, gSeedLog, gSchemaLog, gSnap>>

\* The next clause of the seed statements.
SeedStep ==
    /\ gScript = "seed"
    /\ IF Seed[gPc].kind = "node"
       THEN MergeNodeStep(Seed[gPc]) /\ UNCHANGED gEdges
       ELSE MergeRelStep(Seed[gPc]) /\ UNCHANGED <<gNodes, gEnv>>
    /\ gPc' = IF gPc = Len(Seed) THEN 0 ELSE gPc + 1
    /\ gScript' = IF gPc = Len(Seed) THEN "idle" ELSE gScript
    /\ gSnap' = IF gPc = Len(Seed) /\ Len(gSeedLog) = 1 THEN gNodes' ELSE gSnap
    /\ UNCHANGED <<gConstraints, gIndexes, gRun, gSeedLog, gSchemaLog, gSchemaSnap>>

InitGraph == GraphInit /\ PollOff /\ ResolveOff /\ StreamOff /\ ApiOff /\ DockOff /\ PagesOff /\ BaseOff /\ RouteOff
NextGraph ==
    \/ StartSchema /\ UNCHANGED otherThanGraph
    \/ StartSeed /\ UNCHANGED otherThanGraph
    \/ SchemaStep /\ UNCHANGED otherThanGraph
    \/ SeedStep /\ UNCHANGED otherThanGraph
SpecGraph == InitGraph /\ [][NextGraph]_vars

\* The seed has just been run for at least the second time.
SeededAgain ==
    /\ gScript = "idle"
    /\ Len(gSeedLog) >= 2
    /\ gSeedLog[Len(gSeedLog)] = gRun
\* The (label, id) pairs the seed statements declare.
Declared == {<<Seed[k].label, Seed[k].pat.id>> : k \in {j \in DOMAIN Seed : Seed[j].kind = "node"}}
CreatedAt(n) == IF "created_at" \in DOMAIN n.props THEN n.props.created_at ELSE <<>>

\* C12: after the seed has run twice against an initially empty graph there
\* is exactly one node per declared id per label, and every node has the
\* created_at it had after the first run and an updated_at stamped by the
\* re-run.
C12_SeedTwice ==
    SeededAgain =>
        /\ \A d \in Declared : Cardinality(Found(gNodes, d[1], [id |-> d[2]])) = 1
        /\ \A i \in DOMAIN gNodes :
              /\ i \in DOMAIN gSnap
              /\ CreatedAt(gNodes[i]) = CreatedAt(gSnap[i])
              /\ "updated_at" \in DOMAIN gNodes[i].props
              /\ gNodes[i].props.updated_at[1] = gRun

\* C13: once the schema definition has been applied, applying it again
\* raises no error and leaves the constraints (19, one per node label, each
\* on id) and the single full-text index as they were.
C13_SchemaIdempotent ==
    Len(gSchemaLog) >= 2 =>
        /\ ~gError
        /\ <<gConstraints, gIndexes>> = gSchemaSnap
        /\ Len(gConstraints) = 19
        /\ \A i, j \in DOMAIN gConstraints :
              /\ gConstraints[i].prop = "id"
              /\ gConstraints[i].label = gConstraints[j].label => i = j
        /\ Len(gIndexes) = 1

\* The schema has been applied a second time, to a database that also holds
\* the seed data.
C13_Witness ==
    /\ gScript = "idle"
    /\ Len(gSchemaLog) = 2 /\ gSchemaLog[2] = gRun
    /\ gSeedLog = <<2>>
    /\ Len(gConstraints) = 19 /\ Len(gIndexes) = 1

\* The seed has been run at least once and no script is running.
Seeded == gScript = "idle" /\ Len(gSeedLog) >= 1
WithId(id) == {i \in DOMAIN gNodes : "id" \in DOMAIN gNodes[i].props /\ gNodes[i].props.id = id}
Linked(type, a, b) == FoundRel(gEdges, type, a, b, NoProps) # {}

Level(label) ==
    CASE label = "Site" -> 1 [] label = "Plant" -> 2 [] label = "Line" -> 3
      [] label = "Machine" -> 4 [] label = "Sensor" -> 5 [] OTHER -> 0
Downward == {"HAS_PLANT", "HAS_LINE", "HAS_MACHINE", "HAS_SENSOR"}
ContainmentTypes == Downward \cup {"ATTACHED_TO"}
Containment == {i \in DOMAIN gEdges : gEdges[i].type \in ContainmentTypes}
\* The edge leads from a level to the next lower one.
StepsDown(e) ==
    /\ Level(gNodes[e.from].label) >= 1
    /\ Level(gNodes[e.to].label) = Level(gNodes[e.from].label) + 1
\* Pairs joined by a path of one or more edges of R.
RECURSIVE Paths(_, _)
Paths(R, k) ==
    IF k <= 1 THEN R
    ELSE LET P == Paths(R, k - 1)
         IN  P \cup {<<pr[1][1], pr[2][2]>> : pr \in {x \in P \X R : x[1][2] = x[2][1]}}
Acyclic(R) == \A p \in Paths(R, Cardinality(R)) : p[1] # p[2]

ParentChild ==
    {<<gEdges[i].from, gEdges[i].to>> : i \in {j \in Containment : gEdges[j].type \in Downward}}
        \cup {<<gEdges[i].to, gEdges[i].from>> :
                  i \in {j \in Containment : gEdges[j].type = "ATTACHED_TO"}}

IdChars == {"7", " ", "&", "#"}
RECURSIVE StringsUpTo(_, _)
StringsUpTo(S, n) ==
    IF n = 0 THEN {<<>>}
    ELSE LET shorter == StringsUpTo(S, n - 1)
         IN  shorter \cup {Append(s, c) : s \in shorter, c \in S}
IncidentIds == StringsUpTo(IdChars, MaxIdLen) \ {<<>>}

\* <Route path=... element=...>: the pattern's segments and the element.
\* A segment is a word, or Param for :id / :name.
Param == <<":">>
Route(pattern, element) == [pattern |-> pattern, element |-> element]
RouteTable ==
    << Route(<<>>, "Home"),
       Route(<< <<"incidents">> >>, "Incidents"),
       Route(<< <<"incidents">>, Param >>, "IncidentDetail"),
       Route(<< <<"graph">> >>, "GraphExplorer"),
       Route(<< <<"plant">>, Param >>, "PlantOverview"),
       Route(<< <<"service">>, Param >>, "ServiceDetail"),
       Route(<< <<"runbooks">> >>, "Runbooks"),
       Route(<< <<"reports">> >>, "Reports") >>

\* A location matches a pattern when they have as many segments and every
\* static segment is equal; the parameter is the decoded dynamic segment.
SegmentMatches(seg, pat) == IF pat = Param THEN seg # <<>> ELSE Decode(seg) = pat
RouteMatches(loc, r) ==
    /\ Len(loc) = Len(r.pattern)
    /\ \A i \in DOMAIN loc : SegmentMatches(loc[i], r.pattern[i])
NoMatch == [page |-> "none", param |-> <<>>]
ParamOf(loc, r) ==
    IF \E i \in DOMAIN loc : r.pattern[i] = Param
    THEN Decode(loc[CHOOSE i \in DOMAIN loc : r.pattern[i] = Param])
    ELSE <<>>
MatchRoutes(loc) ==
    LET hits == {i \in DOMAIN RouteTable : RouteMatches(loc, RouteTable[i])}
    IN  IF hits = {} THEN NoMatch
        ELSE [page |-> RouteTable[First(hits)].element,
              param |-> ParamOf(loc, RouteTable[First(hits)])]

\* The places the user goes to: the links of the nav bar, the detail page
\* of the incident under study and of another incident, a plant, a path no
\* route has.
DetailOf(id) == << <<"incidents">>, Encode(id) >>
Locations(id) ==
    { <<>>, << <<"incidents">> >>, DetailOf(id), DetailOf(<<"7">>), << <<"graph">> >>,
      << <<"plant">>, <<"7">> >>, << <<"settings">> >> }

\* fetch(`http://localhost:8000/incidents/search?incident_id=${id}`): the
\* text after the "?" as the template string yields it.
QueryText(id) == <<"incident_id", "=">> \o id
Fetch(endpoint, id, batch) == [endpoint |-> endpoint, query |-> QueryText(id), batch |-> batch]

RouteInit ==
    /\ rtId \in IncidentIds
    /\ rtLoc = <<>>
    /\ rtPage = "Home"
    /\ rtParam = <<>>
    /\ rtFetches = <<>>
    /\ rtBinds = 0
    /\ rtNavs = 0

\* useEffect(() => { load() }, [id]) of IncidentDetail: runs when the page
\* is mounted and when id changes.
EffectRuns(m) == m.page = "IncidentDetail" /\ (rtPage # "IncidentDetail" \/ rtParam # m.param)
\* load(): Promise.all([fetch(search), fetch(timeline)])
LoadFetches(id, batch) ==
    <<Fetch("/incidents/search", id, batch), Fetch("/events/timeline", id, batch)>>

\* The user follows a link or types an address; the router renders the
\* matching element and the effects of that render run.
Navigate(loc) ==
    /\ rtNavs < MaxNavs
    /\ loc # rtLoc
    /\ LET m == MatchRoutes(loc)
       IN  /\ rtPage' = m.page
           /\ rtParam' = m.param
           /\ rtBinds' = IF EffectRuns(m) THEN rtBinds + 1 ELSE rtBinds
           /\ rtFetches' = IF EffectRuns(m)
                           THEN rtFetches \o LoadFetches(m.param, rtBinds + 1)
                           ELSE rtFetches
    /\ rtLoc' = loc
    /\ rtNavs' = rtNavs + 1
    /\ UNCHANGED rtId

InitRoute == RouteInit /\ PollOff /\ ResolveOff /\ StreamOff /\ ApiOff /\ DockOff /\ PagesOff /\ BaseOff /\ GraphOff
NextRoute == \E loc \in Locations(rtId) : Navigate(loc) /\ UNCHANGED otherThanRoute
SpecRoute == InitRoute /\ [][NextRoute]_vars

\* The fetches of the b-th binding of an id.
Batch(b) == SelectSeq(rtFetches, LAMBDA f : f.batch = b)

\* C16: at /incidents/<id> the router renders the incident-detail page with
\* id bound to <id>, and for every id the page was given it started exactly
\* two fetches together, one incident search and one timeline request, both
\* carrying that id as incident_id.
C16_DetailRoute ==
    /\ \A b \in 1..rtBinds :
          /\ Len(Batch(b)) = 2
          /\ {Batch(b)[1].endpoint, Batch(b)[2].endpoint} = {"/incidents/search", "/events/timeline"}
    /\ Len(rtFetches) = 2 * rtBinds
    /\ rtLoc = DetailOf(rtId) =>
          /\ rtPage = "IncidentDetail"
          /\ rtParam = rtId
          /\ \A k \in 1..2 : QueryValue(Batch(rtBinds)[k].query, "incident_id") = rtId

====
